---- MODULE Spec2Model ----
(***************************************************************************)
(* Photo cache of the circus-marketing bot.                                *)
(*                                                                         *)
(* app/storage.py : PhotoStore (init, set_file_id, get_file_id); each      *)
(*                  operation runs inside its own                          *)
(*                  `async with aiosqlite.connect(db_path) as db`.         *)
(* app/main.py    : main() (store.init() before polling), cb_person        *)
(*                  (reads the cache), admin_photo_caption / is_admin      *)
(*                  (writes the cache).                                    *)
(*                                                                         *)
(* A handler runs as a task of the event loop.  Its entry runs up to the   *)
(* opened connection; after that every `await` of the store operation     *)
(* (execute, commit / fetchone, the close done by `async with`) is one     *)
(* step, so the steps of different tasks interleave.  The database file    *)
(* outlives the process: Kill ends the process at any point, Main starts   *)
(* it again on the same file.                                              *)
(*                                                                         *)
(* SQLite is modelled by what the statements of storage.py rely on: a     *)
(* committed table, one write transaction at a time holding a working     *)
(* copy, rollback when a connection closes with the transaction open.     *)
(* The variables last, doneAny, settled and the task fields isLatest,     *)
(* conc, legal, expect record the history the properties speak about.     *)
(***************************************************************************)
EXTENDS Integers, FiniteSets

\* ---- bounds -------------------------------------------------------------
MaxTasks == 2      \* handler coroutines alive at the same time
MaxCalls == 4      \* process starts plus handler invocations over the run

Tasks == 1..MaxTasks

\* ---- input domains ------------------------------------------------------
FileIds == {"f1", "f2"}
PhotoSlugs == {"s1", "s2"}              \* captions /photo <slug>
CallbackSlugs == PhotoSlugs \cup {"zz"} \* callbacks person:<slug>
Usernames == {"", "Admin", "guest"}     \* "" : no from_user or no username

None == "None"                \* Python's None as a value
NoResult == ""                \* nothing returned (still running, or raised)
Unavailable == "OperationalError: storage unavailable"
TypeError == "TypeError: 'NoneType' object is not subscriptable"

\* ---- main.py ------------------------------------------------------------
ADMIN_USERNAMES == {"admin"}
PEOPLE == {"s1", "s2"}

\* str.lower() on the usernames of the model
Lower(u) == IF u = "Admin" THEN "admin" ELSE u

is_adminAnyUsername(u) == u # ""
is_admin(u) == IF u = "" THEN FALSE ELSE Lower(u) \in ADMIN_USERNAMES

\* ---- storage.py: statements and scoped connection -------------------------
Row(s, f) == [slug |-> s, file_id |-> f]

\* CREATE TABLE IF NOT EXISTS photos (...) on a database whose table exists
\* or not and holds `rows`: the error raised ("" for none) and the database after
CreateTableDropFirst(exists, rows) == [exc |-> "", exists |-> TRUE, rows |-> {}]
CreateTable(exists, rows) == [exc |-> "", exists |-> TRUE, rows |-> rows]

\* INSERT INTO photos(slug, file_id) VALUES(?, ?)
\* ON CONFLICT(slug) DO UPDATE SET file_id=excluded.file_id
UpsertIgnore(rows, s, f) ==
    IF \E r \in rows : r.slug = s THEN rows ELSE rows \cup {Row(s, f)}
UpsertClobber(rows, s, f) == {Row(s, f)}
UpsertAppend(rows, s, f) == rows \cup {Row(s, f)}
Upsert(rows, s, f) == {r \in rows : r.slug # s} \cup {Row(s, f)}

\* SELECT file_id FROM photos WHERE slug=? : the result rows, each (file_id,)
Select(rows, s) == {<<r.file_id>> : r \in {x \in rows : x.slug = s}}

\* row = await cur.fetchone(); return row[0] if row else None
FetchOneIndexNone(cur) ==
    IF cur = {} THEN [exc |-> TypeError, value |-> NoResult]
    ELSE [exc |-> "", value |-> (CHOOSE row \in cur : TRUE)[1]]
FetchOne(cur) ==
    IF cur = {} THEN [exc |-> "", value |-> None]
    ELSE [exc |-> "", value |-> (CHOOSE row \in cur : TRUE)[1]]

\* await db.commit(): the transaction's working copy becomes the stored table
CommitTxnSkipped(rows, work) == rows
CommitTxn(rows, work) == work

\* __aexit__ of `async with aiosqlite.connect(...)`: closes the connection
\* of task `c` whether the body returned or raised
AExitLeakOnError(o, c, raised) == IF raised THEN o ELSE o \ {c}
AExit(o, c, raised) == o \ {c}

\* What the caller of a store operation receives: the exception raised in
\* the body (no except clause, no retry), or the returned value
DeliverFallback(cause, value) ==
    [exc |-> "", result |-> IF cause = "" THEN value ELSE None]
Deliver(cause, value) ==
    [exc |-> cause, result |-> IF cause = "" THEN value ELSE NoResult]

\* ---- state --------------------------------------------------------------
VARIABLES
    running,      \* "down" | "init" (main awaits store.init()) | "polling"
    calls,        \* process starts and handler invocations so far
    tableExists,  \* the photos table exists in the database file
    table,        \* committed rows of photos
    writer,       \* task whose connection holds SQLite's write lock, 0 if none
    open,         \* open connections, each named by the task whose operation opened it
    last,         \* per slug, the file_id of the set_file_id that committed last (None: none did)
    doneAny,      \* slugs on which some set_file_id has returned
    settled,      \* slugs whose last committed set_file_id has returned
    tasks         \* per task, the coroutine running a handler

vars == <<running, calls, tableExists, table, writer, open, last, doneAny, settled, tasks>>

\* handler, op, slug, fid, user : the handler and its store call
\* pc        : idle | connected | executed | committed | fetched | failing | done
\* conn      : the connection the operation opened (0: none)
\* work      : working copy of the table in the open transaction
\* cur       : rows of the cursor after SELECT
\* cause     : exception raised inside the operation ("" for none)
\* exc, result, reply : what the caller received and what the handler answered
\* attempts  : connects the operation made
\* committed : the operation committed an upsert
\* isLatest  : no set_file_id on the slug committed after this one
\* conc      : slugs of the set_file_id calls in flight together with this one
\* legal     : for a get, the value committed last on its slug when it was
\*             called, and the values committed on that slug while it ran
\* expect    : for a get called when the last committed set on its slug had
\*             returned and no set on the slug has been in flight since:
\*             the value of that set ("" otherwise)
IdleTask ==
    [handler |-> "", op |-> "", slug |-> "", fid |-> "", user |-> "",
     pc |-> "idle", conn |-> 0, work |-> {}, cur |-> {},
     cause |-> "", exc |-> "", result |-> NoResult, reply |-> "",
     attempts |-> 0, committed |-> FALSE, isLatest |-> FALSE, conc |-> {},
     legal |-> {}, expect |-> ""]

InFlight(r) == r.pc \notin {"idle", "done"}

SetInFlight(s) ==
    \E u \in Tasks : InFlight(tasks[u]) /\ tasks[u].op = "set" /\ tasks[u].slug = s

Init ==
    /\ running = "down"
    /\ calls = 0
    /\ tableExists = FALSE
    /\ table = {}
    /\ writer = 0
    /\ open = {}
    /\ last = [s \in PhotoSlugs |-> None]
    /\ doneAny = {}
    /\ settled = {}
    /\ tasks = [t \in Tasks |-> IdleTask]

\* ---- main.py: what a handler does with the outcome of its store call ------

\* cb_person: photo when a file_id came back and sending it did not raise,
\* text otherwise; admin_photo_caption: the confirmation.  An exception of
\* the store call is caught by neither and leaves the handler.
HandlerReply(r, e, res, sendOk) ==
    IF e # "" THEN ""
    ELSE IF r.handler = "cb_person"
         THEN IF res # None /\ sendOk THEN "photo" ELSE "text"
    ELSE IF r.handler = "admin_photo_caption" THEN "saved"
    ELSE ""

\* The store call of the task with record r is over
Returned(r, sendOk) ==
    LET d == Deliver(r.cause, IF r.op = "get" THEN r.result ELSE None) IN
    [r EXCEPT !.pc = "done", !.work = {}, !.cur = {},
              !.exc = d.exc, !.result = d.result,
              !.reply = HandlerReply(r, d.exc, d.result, sendOk)]

\* aiosqlite.connect(self.db_path).__aenter__ for the call prepared in r:
\* the connection is open, or the storage is unavailable and the exception
\* leaves the operation with nothing opened
Connected(t, r, ok) ==
    IF ok THEN [r EXCEPT !.pc = "connected", !.conn = t, !.attempts = @ + 1]
    ELSE Returned([r EXCEPT !.cause = Unavailable, !.attempts = @ + 1], TRUE)

\* ---- main.py: process and handlers ---------------------------------------

\* asyncio.run(main()): main awaits store.init() before start_polling; an
\* exception of init ends the process
Main(ok) ==
    /\ running = "down"
    /\ calls < MaxCalls
    /\ calls' = calls + 1
    /\ running' = IF ok THEN "init" ELSE "down"
    /\ tasks' = [t \in Tasks |->
         IF t = 1
         THEN Connected(1, [IdleTask EXCEPT !.handler = "main", !.op = "init"], ok)
         ELSE IdleTask]
    /\ open' = IF ok THEN {1} ELSE {}
    /\ UNCHANGED <<tableExists, table, writer, last, doneAny, settled>>

\* The process ends (crash, redeploy): coroutines vanish, the OS closes
\* their connections and an uncommitted transaction is rolled back
Kill ==
    /\ running # "down"
    /\ running' = "down"
    /\ tasks' = [t \in Tasks |-> IdleTask]
    /\ open' = {}
    /\ writer' = 0
    /\ UNCHANGED <<calls, tableExists, table, last, doneAny, settled>>

\* A task is "done" in the state right after its handler ended, where its
\* outcome can be read; the coroutine is discarded before anything else runs
NoneDone == \A x \in Tasks : tasks[x].pc # "done"

Discard(t) ==
    /\ tasks[t].pc = "done"
    /\ running # "down"
    /\ tasks' = [tasks EXCEPT ![t] = IdleTask]
    /\ UNCHANGED <<running, calls, tableExists, table, writer, open, last, doneAny, settled>>

\* The dispatcher starts a handler in the lowest free task
CanDispatch(t) ==
    /\ running = "polling"
    /\ calls < MaxCalls
    /\ NoneDone
    /\ tasks[t].pc = "idle"
    /\ \A u \in Tasks : u < t => tasks[u].pc # "idle"

\* PhotoStore.init() called again on the running process
ReInit(t, ok) ==
    /\ CanDispatch(t)
    /\ calls' = calls + 1
    /\ tasks' = [tasks EXCEPT ![t] =
                   Connected(t, [IdleTask EXCEPT !.handler = "caller", !.op = "init"], ok)]
    /\ open' = IF ok THEN open \cup {t} ELSE open
    /\ UNCHANGED <<running, tableExists, table, writer, last, doneAny, settled>>

\* cb_person up to the connection of store.get_file_id(slug)
CbPerson(t, s, ok) ==
    /\ CanDispatch(t)
    /\ calls' = calls + 1
    /\ IF s \notin PEOPLE
       THEN /\ tasks' = [tasks EXCEPT ![t] =
                           [IdleTask EXCEPT !.handler = "cb_person", !.slug = s,
                                            !.pc = "done", !.reply = "not_found"]]
            /\ open' = open
       ELSE /\ tasks' = [tasks EXCEPT ![t] =
                           Connected(t, [IdleTask EXCEPT
                              !.handler = "cb_person", !.slug = s, !.op = "get",
                              !.legal = {last[s]},
                              !.expect = IF s \in settled /\ ~SetInFlight(s)
                                         THEN last[s] ELSE ""], ok)]
            /\ open' = IF ok THEN open \cup {t} ELSE open
    /\ UNCHANGED <<running, tableExists, table, writer, last, doneAny, settled>>

\* admin_photo_caption up to the connection of store.set_file_id(slug, file_id)
AdminPhotoCaption(t, u, s, f, ok) ==
    /\ CanDispatch(t)
    /\ calls' = calls + 1
    /\ IF ~is_admin(u)
       THEN /\ tasks' = [tasks EXCEPT ![t] =
                           [IdleTask EXCEPT !.handler = "admin_photo_caption", !.user = u,
                                            !.pc = "done", !.reply = "need_admin"]]
            /\ open' = open
       ELSE LET others == {x \in Tasks : InFlight(tasks[x]) /\ tasks[x].op = "set"}
                r == [IdleTask EXCEPT !.handler = "admin_photo_caption", !.user = u,
                                      !.slug = s, !.fid = f, !.op = "set",
                                      !.conc = IF ok THEN {tasks[x].slug : x \in others}
                                               ELSE {}]
                seen == [x \in Tasks |->
                           [tasks[x] EXCEPT
                              !.conc = IF ok /\ x \in others THEN @ \cup {s} ELSE @,
                              !.expect = IF ok /\ InFlight(tasks[x]) /\ tasks[x].op = "get"
                                            /\ tasks[x].slug = s THEN "" ELSE @]]
            IN  /\ tasks' = [seen EXCEPT ![t] = Connected(t, r, ok)]
                /\ open' = IF ok THEN open \cup {t} ELSE open
    /\ UNCHANGED <<running, tableExists, table, writer, last, doneAny, settled>>

\* ---- storage.py: the steps of an operation --------------------------------

\* init: await db.execute(CREATE TABLE IF NOT EXISTS ...); the sqlite3
\* module opens no transaction for DDL, the statement takes effect at once
ExecuteCreate(t) ==
    /\ NoneDone
    /\ tasks[t].pc = "connected"
    /\ tasks[t].op = "init"
    /\ LET c == CreateTable(tableExists, table) IN
       IF c.exc # ""
       THEN /\ tasks' = [tasks EXCEPT ![t] = [@ EXCEPT !.pc = "failing", !.cause = c.exc]]
            /\ UNCHANGED <<tableExists, table>>
       ELSE /\ tasks' = [tasks EXCEPT ![t] = [@ EXCEPT !.pc = "executed"]]
            /\ tableExists' = c.exists
            /\ table' = c.rows
    /\ UNCHANGED <<running, calls, writer, open, last, doneAny, settled>>

\* set_file_id: await db.execute(INSERT ... ON CONFLICT ...): opens the
\* implicit transaction, which takes SQLite's write lock (while another
\* connection holds it the statement waits), and upserts in the working copy
ExecuteUpsert(t) ==
    /\ NoneDone
    /\ tasks[t].pc = "connected"
    /\ tasks[t].op = "set"
    /\ tableExists
    /\ writer = 0
    /\ writer' = t
    /\ tasks' = [tasks EXCEPT ![t] =
                   [@ EXCEPT !.pc = "executed",
                             !.work = Upsert(table, tasks[t].slug, tasks[t].fid)]]
    /\ UNCHANGED <<running, calls, tableExists, table, open, last, doneAny, settled>>

\* get_file_id: db.execute(SELECT ...) reads the committed table
ExecuteSelect(t) ==
    /\ NoneDone
    /\ tasks[t].pc = "connected"
    /\ tasks[t].op = "get"
    /\ tableExists
    /\ tasks' = [tasks EXCEPT ![t] =
                   [@ EXCEPT !.pc = "executed", !.cur = Select(table, tasks[t].slug)]]
    /\ UNCHANGED <<running, calls, tableExists, table, writer, open, last, doneAny, settled>>

\* execute raises (storage unavailable, wait for the lock timed out)
ExecuteFail(t) ==
    /\ NoneDone
    /\ tasks[t].pc = "connected"
    /\ tasks' = [tasks EXCEPT ![t] = [@ EXCEPT !.pc = "failing", !.cause = Unavailable]]
    /\ UNCHANGED <<running, calls, tableExists, table, writer, open, last, doneAny, settled>>

\* await db.commit()
Commit(t) ==
    /\ NoneDone
    /\ tasks[t].pc = "executed"
    /\ tasks[t].op \in {"init", "set"}
    /\ LET r == tasks[t] IN
       IF r.op = "set"
       THEN /\ table' = CommitTxn(table, r.work)
            /\ writer' = 0
            /\ last' = [last EXCEPT ![r.slug] = r.fid]
            /\ settled' = settled \ {r.slug}
            /\ tasks' = [x \in Tasks |->
                 IF x = t
                 THEN [r EXCEPT !.pc = "committed", !.work = {},
                                !.committed = TRUE, !.isLatest = TRUE]
                 ELSE IF tasks[x].slug # r.slug THEN tasks[x]
                 ELSE IF tasks[x].op = "set" THEN [tasks[x] EXCEPT !.isLatest = FALSE]
                 ELSE IF tasks[x].op = "get" /\ InFlight(tasks[x])
                      THEN [tasks[x] EXCEPT !.legal = @ \cup {r.fid}]
                 ELSE tasks[x]]
       ELSE /\ tasks' = [tasks EXCEPT ![t] = [r EXCEPT !.pc = "committed"]]
            /\ UNCHANGED <<table, writer, last, settled>>
    /\ UNCHANGED <<running, calls, tableExists, open, doneAny>>

\* commit raises: the transaction stays open until the connection closes
CommitFail(t) ==
    /\ NoneDone
    /\ tasks[t].pc = "executed"
    /\ tasks[t].op \in {"init", "set"}
    /\ tasks' = [tasks EXCEPT ![t] = [@ EXCEPT !.pc = "failing", !.cause = Unavailable]]
    /\ UNCHANGED <<running, calls, tableExists, table, writer, open, last, doneAny, settled>>

\* row = await cur.fetchone(); return row[0] if row else None
Fetch(t) ==
    /\ NoneDone
    /\ tasks[t].pc = "executed"
    /\ tasks[t].op = "get"
    /\ LET g == FetchOne(tasks[t].cur) IN
       tasks' = [tasks EXCEPT ![t] =
                   IF g.exc # ""
                   THEN [@ EXCEPT !.pc = "failing", !.cause = g.exc, !.cur = {}]
                   ELSE [@ EXCEPT !.pc = "fetched", !.result = g.value, !.cur = {}]]
    /\ UNCHANGED <<running, calls, tableExists, table, writer, open, last, doneAny, settled>>

\* fetchone raises
FetchFail(t) ==
    /\ NoneDone
    /\ tasks[t].pc = "executed"
    /\ tasks[t].op = "get"
    /\ tasks' = [tasks EXCEPT ![t] =
                   [@ EXCEPT !.pc = "failing", !.cause = Unavailable, !.cur = {}]]
    /\ UNCHANGED <<running, calls, tableExists, table, writer, open, last, doneAny, settled>>

\* Leaving `async with`: the connection is closed (an open transaction is
\* rolled back, its lock released), then the operation returns or raises
\* and the handler answers
Close(t, sendOk) ==
    /\ NoneDone
    /\ tasks[t].pc \in {"committed", "fetched", "failing"}
    /\ open' = AExit(open, tasks[t].conn, tasks[t].cause # "")
    /\ writer' = IF writer = t THEN 0 ELSE writer
    /\ LET r == tasks[t]
           d == Returned(r, sendOk)
       IN  /\ tasks' = [tasks EXCEPT ![t] = d]
           /\ running' = IF r.handler = "main"
                         THEN IF d.exc = "" THEN "polling" ELSE "down"
                         ELSE running
           /\ doneAny' = IF r.op = "set" /\ d.exc = "" THEN doneAny \cup {r.slug}
                         ELSE doneAny
           /\ settled' = IF r.op = "set" /\ d.exc = "" /\ r.isLatest
                         THEN settled \cup {r.slug} ELSE settled
    /\ UNCHANGED <<calls, tableExists, table, last>>

Next ==
    \/ \E ok \in BOOLEAN : Main(ok)
    \/ Kill
    \/ \E t \in Tasks, ok \in BOOLEAN : ReInit(t, ok)
    \/ \E t \in Tasks, s \in CallbackSlugs, ok \in BOOLEAN : CbPerson(t, s, ok)
    \/ \E t \in Tasks, u \in Usernames, s \in PhotoSlugs, f \in FileIds, ok \in BOOLEAN :
         AdminPhotoCaption(t, u, s, f, ok)
    \/ \E t \in Tasks : ExecuteCreate(t)
    \/ \E t \in Tasks : ExecuteUpsert(t)
    \/ \E t \in Tasks : ExecuteSelect(t)
    \/ \E t \in Tasks : ExecuteFail(t)
    \/ \E t \in Tasks : Commit(t)
    \/ \E t \in Tasks : CommitFail(t)
    \/ \E t \in Tasks : Fetch(t)
    \/ \E t \in Tasks : FetchFail(t)
    \/ \E t \in Tasks, sendOk \in BOOLEAN : Close(t, sendOk)
    \/ \E t \in Tasks : Discard(t)

Spec == Init /\ [][Next]_vars

TypeOK ==
    /\ running \in {"down", "init", "polling"}
    /\ calls \in 0..MaxCalls
    /\ tableExists \in BOOLEAN
    /\ table \subseteq [slug : PhotoSlugs, file_id : FileIds]
    /\ writer \in {0} \cup Tasks
    /\ open \subseteq Tasks
    /\ \A t \in Tasks : tasks[t].pc \in
         {"idle", "connected", "executed", "committed", "fetched", "failing", "done"}
\* ---- properties ----------------------------------------------------------

\* What get_file_id(s) evaluates to on the committed table
Stored(s) == FetchOne(Select(table, s)).value

GetReturned(t) == tasks[t].op = "get" /\ tasks[t].pc = "done" /\ tasks[t].exc = ""
SetReturned(t) == tasks[t].op = "set" /\ tasks[t].pc = "done" /\ tasks[t].exc = ""

C2_CommittedVisible ==
    \A t \in Tasks :
        /\ GetReturned(t) => tasks[t].result \in tasks[t].legal
        /\ SetReturned(t) => tasks[t].committed /\ last[tasks[t].slug] # None

C2_Witness ==
    \E t \in Tasks :
        /\ GetReturned(t)
        /\ tasks[t].legal = {"f1", "f2"}
        /\ tasks[t].result = "f2"
        /\ tasks[t].slug \in doneAny

\* C3 - set_file_id calls on distinct slugs do not interfere: when a
\* set_file_id returns, its slug holds its file_id (unless a later set on
\* the slug committed) and every other slug still holds the file_id
\* committed last for it.
C3_DistinctSlugsPersist ==
    \A t \in Tasks :
        SetReturned(t) =>
            /\ tasks[t].isLatest => Stored(tasks[t].slug) = tasks[t].fid
            /\ \A s \in PhotoSlugs \ {tasks[t].slug} :
                   last[s] # None => Stored(s) = last[s]

C3_Witness ==
    \E t \in Tasks :
        /\ SetReturned(t)
        /\ tasks[t].isLatest
        /\ Stored(tasks[t].slug) = tasks[t].fid
        /\ \E s \in tasks[t].conc :
               /\ s # tasks[t].slug
               /\ s \in settled
               /\ Stored(s) = last[s]

\* C4 - init is idempotent: once an init has executed its statement on a
\* database that holds mappings (a second init, after a restart or on the
\* running process), every slug still holds the file_id committed last for
\* it, and the init raises nothing unless the storage is unavailable.
C4_InitIdempotent ==
    \A t \in Tasks :
        tasks[t].op = "init" /\ tasks[t].pc \in {"executed", "committed", "failing", "done"} =>
            /\ \A s \in PhotoSlugs : Stored(s) = last[s]
            /\ tasks[t].pc = "done" /\ tasks[t].cause # Unavailable => tasks[t].exc = ""

C4_Witness ==
    \E t \in Tasks :
        /\ tasks[t].handler = "main"
        /\ tasks[t].op = "init"
        /\ tasks[t].pc = "done"
        /\ tasks[t].exc = ""
        /\ table # {}

\* C5 (as stated) - get_file_id(s) returns None, raising nothing, whenever
\* no set_file_id on s has returned (the storage being available).
C5_AbsentIfNoneCompleted ==
    \A t \in Tasks :
        /\ tasks[t].op = "get"
        /\ tasks[t].pc = "done"
        /\ tasks[t].cause # Unavailable
        /\ tasks[t].slug \notin doneAny
        => tasks[t].exc = "" /\ tasks[t].result = None

\* C5 (amended) - get_file_id(s) returns None, raising nothing, whenever no
\* set_file_id on s has committed (the storage being available), whatever
\* was set on other slugs.
C5_AbsentIfNoneCommitted ==
    \A t \in Tasks :
        /\ tasks[t].op = "get"
        /\ tasks[t].pc = "done"
        /\ tasks[t].cause # Unavailable
        /\ last[tasks[t].slug] = None
        => tasks[t].exc = "" /\ tasks[t].result = None

C5_Witness ==
    \E t \in Tasks :
        /\ GetReturned(t)
        /\ last[tasks[t].slug] = None
        /\ tasks[t].result = None
        /\ \E s \in PhotoSlugs : last[s] # None

\* C6 - at most one file_id per slug: the table and every transaction's
\* working copy hold at most one row per slug, and a slug on which a
\* set_file_id committed keeps a row (exactly one) from then on.
C6_OneRowPerSlug ==
    /\ \A s \in PhotoSlugs :
           /\ Cardinality({r \in table : r.slug = s}) <= 1
           /\ last[s] # None => \E r \in table : r.slug = s
    /\ \A t \in Tasks, s \in PhotoSlugs :
           Cardinality({r \in tasks[t].work : r.slug = s}) <= 1

C6_Witness ==
    \E t, u \in Tasks :
        /\ t # u
        /\ tasks[t].op = "set" /\ tasks[u].op = "set"
        /\ tasks[t].slug = tasks[u].slug
        /\ tasks[u].committed /\ ~tasks[u].isLatest
        /\ tasks[t].committed /\ tasks[t].isLatest
        /\ tasks[t].fid # tasks[u].fid
        /\ {r \in table : r.slug = tasks[t].slug} = {Row(tasks[t].slug, tasks[t].fid)}

\* C7 - storage unavailable: the operation ends with that error delivered
\* to its caller, after one attempt, with no value returned and without
\* having committed anything.
C7_FailurePropagates ==
    \A t \in Tasks :
        tasks[t].pc = "done" /\ tasks[t].cause = Unavailable =>
            /\ tasks[t].exc = Unavailable
            /\ tasks[t].result = NoResult
            /\ tasks[t].attempts = 1
            /\ ~tasks[t].committed

C7_Witness ==
    \E t \in Tasks :
        /\ tasks[t].op = "set"
        /\ tasks[t].pc = "done"
        /\ tasks[t].cause = Unavailable
        /\ tasks[t].conn # 0
        /\ last[tasks[t].slug] # None
        /\ Stored(tasks[t].slug) = last[tasks[t].slug]

\* C8 (as stated) - when get_file_id fails while cb_person renders the card
\* of a known slug, the handler still sends the card as text.
C8_CardSentOnStorageFailure ==
    \A t \in Tasks :
        /\ tasks[t].handler = "cb_person"
        /\ tasks[t].pc = "done"
        /\ tasks[t].slug \in PEOPLE
        /\ tasks[t].cause = Unavailable
        => tasks[t].reply = "text"

\* C9 - scoped connections: the open connections are exactly those of the
\* operations in progress, each opened by the operation using it; an
\* operation that has finished, by returning or by raising at any step, has
\* closed its connection.
C9_ConnectionsScoped ==
    /\ open = {t \in Tasks : InFlight(tasks[t])}
    /\ \A t \in open : tasks[t].conn = t

C9_Witness ==
    \E t \in Tasks :
        /\ tasks[t].pc = "done"
        /\ tasks[t].cause = Unavailable
        /\ tasks[t].conn # 0
        /\ open = {}

\* C10 - only authorized uploaders write: every set_file_id runs for
\* admin_photo_caption with a sender whose username is in ADMIN_USERNAMES
\* (compared in lower case); for any other sender the handler ends with the
\* 'admin rights required' reply, having called no store operation.
C10_OnlyAdminsWrite ==
    \A t \in Tasks :
        LET r == tasks[t]
            admin == r.user # "" /\ Lower(r.user) \in ADMIN_USERNAMES
        IN  /\ r.op = "set" => r.handler = "admin_photo_caption" /\ admin
            /\ r.handler = "admin_photo_caption" /\ ~admin =>
                   /\ r.pc = "done"
                   /\ r.op = ""
                   /\ r.reply = "need_admin"
                   /\ ~r.committed

C10_Witness ==
    \E t \in Tasks :
        /\ tasks[t].handler = "admin_photo_caption"
        /\ tasks[t].user = "guest"
        /\ tasks[t].pc = "done"
        /\ tasks[t].reply = "need_admin"
        /\ table # {}
====
